---- MODULE Spec2Model ----
(***************************************************************************)
(* Model of src/convert.py: the JIS area-ku-ten to Shift JIS arithmetic    *)
(* (jis_to_sjis), the decoding fallback chain (sjis_to_unicode) and the    *)
(* orchestration (convert_jis_code).                                       *)
(*                                                                         *)
(* Python values are modelled as follows.  A str is a sequence of          *)
(* one-character tokens and a tuple (s1, s2) is << s1, s2 >>; a name of    *)
(* that kind that is not bound yet, or is None, holds Unbound.  A dict and *)
(* a returned triple are records; a name of that kind that is None holds   *)
(* None.  An exception is a record [type, msg]; the absence of a raised    *)
(* exception is NoExc.  Integers are unbounded, as in Python.              *)
(***************************************************************************)
EXTENDS Integers, Sequences, FiniteSets, TLC

VARIABLES
    entry,         \* the function called from outside
    pc,            \* position of the call in progress
    jis_input,     \* convert_jis_code: the argument
    args,          \* << m, k, t >> once they are bound
    debug_info,    \* convert_jis_code: debug_info
    sjis,          \* << s1, s2 >>: jis_to_sjis's value, sjis_to_unicode's arguments
    sjis_bytes,    \* sjis_to_unicode: bytes([s1, s2])
    attempts,      \* sjis_to_unicode: the decode calls made so far, each with its outcome
    unicode_char,  \* sjis_to_unicode: the decoded str
    exc,           \* the exception raised and not yet handled, or NoExc
    result         \* convert_jis_code: the returned triple

vars == << entry, pc, jis_input, args, debug_info, sjis, sjis_bytes,
           attempts, unicode_char, exc, result >>

None == [none |-> TRUE]
Unbound == << >>
NoExc == [type |-> "none", msg |-> ""]
Raise(type, msg) == [type |-> type, msg |-> msg]

---------------------------------------------------------------------------
(* Bounds of the model. *)

\* jis_to_sjis is called with m in -ArgMargin .. 2 + ArgMargin and with
\* k and t in 1 - ArgMargin .. 94 + ArgMargin; sjis_to_unicode is called
\* with s1 and s2 in -ArgMargin .. 255 + ArgMargin.
ArgMargin == 2

\* convert_jis_code is called with every string of at most MaxLen characters
\* over InputChars.
MaxLen == 6

---------------------------------------------------------------------------
(* jis_to_sjis *)

\* Variants of the operators below, each with one slip, against which the
\* properties at the end of the module are tested.
\* RangeCheck accepting ku = 0.
RangeCheck_KuFromZero(m, k, t) ==
    IF ~(1 <= m /\ m <= 2)
    THEN Raise("ValueError", "Invalid area number")
    ELSE IF ~(0 <= k /\ k <= 94)
    THEN Raise("ValueError", "Invalid ku number")
    ELSE IF ~(1 <= t /\ t <= 94)
    THEN Raise("ValueError", "Invalid ten number")
    ELSE NoExc

\* Area1_s1 without the jump over 0xA0-0xDF.
Area1_s1_NoGapSkip(jis_high) ==
    IF jis_high % 2 = 1
    THEN ((jis_high - 33) \div 2) + 129
    ELSE ((jis_high - 34) \div 2) + 129

\* Area1_s2 giving even rows the offsets of odd rows.
Area1_s2_EvenAsOdd(jis_high, jis_low) ==
    IF jis_low < 96
    THEN jis_low + 31
    ELSE jis_low + 32

\* Area2 without the step over 0x7F.
Area2_NoSkip7F(linear_index) ==
    IF linear_index < 1410
    THEN << 135 + (linear_index \div 188), 64 + (linear_index % 188) >>
    ELSE << 224 + ((linear_index - 1410) \div 188),
            64 + ((linear_index - 1410) % 188) >>

\* The range validation at the head of jis_to_sjis: the ValueError it
\* raises, or NoExc.
RangeCheck(m, k, t) ==
    IF ~(1 <= m /\ m <= 2)
    THEN Raise("ValueError", "Invalid area number")
    ELSE IF ~(1 <= k /\ k <= 94)
    THEN Raise("ValueError", "Invalid ku number")
    ELSE IF ~(1 <= t /\ t <= 94)
    THEN Raise("ValueError", "Invalid ten number")
    ELSE NoExc

\* Area 1, first byte.  x >> 1 is x \div 2 (both round towards minus
\* infinity).  33 = 0x21, 34 = 0x22, 129 = 0x81, 159 = 0x9F, 64 = 0x40.
Area1_s1(jis_high) ==
    IF jis_high % 2 = 1
    THEN LET s1 == ((jis_high - 33) \div 2) + 129
         IN  IF s1 > 159 THEN s1 + 64 ELSE s1
    ELSE LET s1 == ((jis_high - 34) \div 2) + 129
         IN  IF s1 > 159 THEN s1 + 64 ELSE s1

\* Area 1, second byte.  96 = 0x60, 31 = 0x1F, 32 = 0x20, 126 = 0x7E.
Area1_s2(jis_high, jis_low) ==
    IF jis_high % 2 = 1
    THEN IF jis_low < 96
         THEN jis_low + 31
         ELSE jis_low + 32
    ELSE jis_low + 126

\* Area 2: the pair for a linear index.  135 = 0x87, 224 = 0xE0,
\* 64 = 0x40, 65 = 0x41.
Area2(linear_index) ==
    IF linear_index < 1410
    THEN LET s1 == 135 + (linear_index \div 188)
             remainder == linear_index % 188
         IN  IF remainder < 63
             THEN << s1, 64 + remainder >>
             ELSE << s1, 65 + remainder >>
    ELSE LET adjusted_index == linear_index - 1410
             s1 == 224 + (adjusted_index \div 188)
             remainder == adjusted_index % 188
         IN  IF remainder < 63
             THEN << s1, 64 + remainder >>
             ELSE << s1, 65 + remainder >>

\* What jis_to_sjis(m, k, t) produces: the exception it raises (and no
\* value), or the pair it returns.
jis_to_sjis(m, k, t) ==
    IF RangeCheck(m, k, t) # NoExc
    THEN [exc |-> RangeCheck(m, k, t), ret |-> Unbound]
    ELSE IF m = 1
    THEN LET jis_high == k + 32
             jis_low  == t + 32
         IN  [exc |-> NoExc,
              ret |-> << Area1_s1(jis_high), Area1_s2(jis_high, jis_low) >>]
    ELSE LET linear_index == (k - 1) * 94 + (t - 1)
         IN  [exc |-> NoExc, ret |-> Area2(linear_index)]

\* The call of jis_to_sjis with the bound arguments: it returns to its
\* caller, or raises into it.
Enc_Call ==
    /\ pc = "jis_to_sjis"
    /\ LET r == jis_to_sjis(args[1], args[2], args[3])
       IN  /\ sjis' = r.ret
           /\ exc' = r.exc
           /\ pc' = IF entry = "jis_to_sjis" THEN "done"
                    ELSE IF r.exc = NoExc THEN "record_bytes" ELSE "except"
    /\ UNCHANGED << entry, jis_input, args, debug_info, sjis_bytes,
                    attempts, unicode_char, result >>

AreaArgs == (0 - ArgMargin) .. (2 + ArgMargin)
KuTenArgs == (1 - ArgMargin) .. (94 + ArgMargin)

InitEnc ==
    /\ entry = "jis_to_sjis"
    /\ pc = "jis_to_sjis"
    /\ jis_input = Unbound
    /\ args \in AreaArgs \X KuTenArgs \X KuTenArgs
    /\ debug_info = None
    /\ sjis = Unbound
    /\ sjis_bytes = Unbound
    /\ attempts = << >>
    /\ unicode_char = None
    /\ exc = NoExc
    /\ result = None

NextEnc == Enc_Call

SpecEnc == InitEnc /\ [][NextEnc]_vars

---------------------------------------------------------------------------
(* sjis_to_unicode *)

\* The str a codec's decode returns for these bytes.  The codec tables
\* belong to the Python library, not to this program: the value is kept
\* symbolic and records which codec produced it.
Decoded(codec, b) == [codec |-> codec, bytes |-> b]

\* The outcomes of bytes.decode(codec) the library can produce.  shift_jis
\* and cp932 either decode or raise UnicodeDecodeError; the except clause of
\* the third attempt also expects LookupError.
DecodeOutcomes(codec) ==
    IF codec = "shift_jis-2004"
    THEN {"ok", "UnicodeDecodeError", "LookupError"}
    ELSE {"ok", "UnicodeDecodeError"}

\* Where a function that has finished goes: convert_jis_code resumes after
\* the call or in its handlers; a function called from outside is done.
AfterDecode(raised) ==
    IF entry = "sjis_to_unicode" THEN "done"
    ELSE IF raised THEN "except" ELSE "return"

\* sjis_bytes = bytes([s1, s2]): ValueError unless both are in range(0, 256).
Dec_MakeBytes ==
    /\ pc = "sjis_to_unicode"
    /\ IF sjis[1] \in 0..255 /\ sjis[2] \in 0..255
       THEN /\ sjis_bytes' = sjis
            /\ pc' = "try_shift_jis"
            /\ exc' = exc
       ELSE /\ sjis_bytes' = sjis_bytes
            /\ exc' = Raise("ValueError", "bytes must be in range(0, 256)")
            /\ pc' = AfterDecode(TRUE)
    /\ UNCHANGED << entry, jis_input, args, debug_info, sjis, attempts,
                    unicode_char, result >>

\* Dec_TryShiftJis falling through to shift_jis-2004, past cp932.
Dec_TryShiftJis_SkipCp932 ==
    /\ pc = "try_shift_jis"
    /\ \E outcome \in DecodeOutcomes("shift_jis") :
          /\ attempts' = Append(attempts, [codec |-> "shift_jis", outcome |-> outcome])
          /\ IF outcome = "ok"
             THEN /\ unicode_char' = Decoded("shift_jis", sjis_bytes)
                  /\ pc' = AfterDecode(FALSE)
             ELSE /\ unicode_char' = unicode_char
                  /\ pc' = "try_shift_jis-2004"
    /\ UNCHANGED << entry, jis_input, args, debug_info, sjis, sjis_bytes,
                    exc, result >>

\* The first attempt: sjis_bytes.decode('shift_jis').  On success the
\* function returns; on UnicodeDecodeError it goes on to cp932.
Dec_TryShiftJis ==
    /\ pc = "try_shift_jis"
    /\ \E outcome \in DecodeOutcomes("shift_jis") :
          /\ attempts' = Append(attempts, [codec |-> "shift_jis", outcome |-> outcome])
          /\ IF outcome = "ok"
             THEN /\ unicode_char' = Decoded("shift_jis", sjis_bytes)
                  /\ pc' = AfterDecode(FALSE)
             ELSE /\ unicode_char' = unicode_char
                  /\ pc' = "try_cp932"
    /\ UNCHANGED << entry, jis_input, args, debug_info, sjis, sjis_bytes,
                    exc, result >>

\* The second attempt: sjis_bytes.decode('cp932').
Dec_TryCp932 ==
    /\ pc = "try_cp932"
    /\ \E outcome \in DecodeOutcomes("cp932") :
          /\ attempts' = Append(attempts, [codec |-> "cp932", outcome |-> outcome])
          /\ IF outcome = "ok"
             THEN /\ unicode_char' = Decoded("cp932", sjis_bytes)
                  /\ pc' = AfterDecode(FALSE)
             ELSE /\ unicode_char' = unicode_char
                  /\ pc' = "try_shift_jis-2004"
    /\ UNCHANGED << entry, jis_input, args, debug_info, sjis, sjis_bytes,
                    exc, result >>

\* The last attempt: its failure, of either kind, is raised as a
\* UnicodeDecodeError whose reason quotes the bytes and the cause.
Dec_TrySjis2004 ==
    /\ pc = "try_shift_jis-2004"
    /\ \E outcome \in DecodeOutcomes("shift_jis-2004") :
          /\ attempts' = Append(attempts, [codec |-> "shift_jis-2004", outcome |-> outcome])
          /\ IF outcome = "ok"
             THEN /\ unicode_char' = Decoded("shift_jis-2004", sjis_bytes)
                  /\ exc' = exc
                  /\ pc' = AfterDecode(FALSE)
             ELSE /\ unicode_char' = unicode_char
                  /\ exc' = Raise("UnicodeDecodeError", outcome)
                  /\ pc' = AfterDecode(TRUE)
    /\ UNCHANGED << entry, jis_input, args, debug_info, sjis, sjis_bytes,
                    result >>

ByteArgs == (0 - ArgMargin) .. (255 + ArgMargin)

InitDec ==
    /\ entry = "sjis_to_unicode"
    /\ pc = "sjis_to_unicode"
    /\ jis_input = Unbound
    /\ args = Unbound
    /\ debug_info = None
    /\ sjis \in ByteArgs \X ByteArgs
    /\ sjis_bytes = Unbound
    /\ attempts = << >>
    /\ unicode_char = None
    /\ exc = NoExc
    /\ result = None

NextDec ==
    \/ Dec_MakeBytes
    \/ Dec_TryShiftJis
    \/ Dec_TryCp932
    \/ Dec_TrySjis2004

SpecDec == InitDec /\ [][NextDec]_vars

---------------------------------------------------------------------------
(* convert_jis_code *)

AsciiDigits == {"0", "1", "2", "3", "4", "5", "6", "7", "8", "9"}

\* Characters of the inputs: some ASCII digits; "a", a letter; "FW1",
\* U+FF11 FULLWIDTH DIGIT ONE, a decimal digit that is not ASCII; "SUP2",
\* U+00B2 SUPERSCRIPT TWO, a digit that is not a decimal digit.
InputChars == {"0", "1", "2", "3", "9", "a", "FW1", "SUP2"}

\* str.isdigit() of one character.
IsDigitChar(c) == c \in AsciiDigits \cup {"FW1", "SUP2"}

\* The characters int() accepts in a string of digits: the decimal digits.
IsDecimalChar(c) == c \in AsciiDigits \cup {"FW1"}

DigitValue(c) ==
    CASE c = "0" -> 0 [] c = "1" -> 1 [] c = "2" -> 2 [] c = "3" -> 3
      [] c = "4" -> 4 [] c = "5" -> 5 [] c = "6" -> 6 [] c = "7" -> 7
      [] c = "8" -> 8 [] c = "9" -> 9 [] c = "FW1" -> 1

\* str.isdigit(): every character is a digit and there is at least one.
isdigit(s) == Len(s) > 0 /\ \A i \in 1..Len(s) : IsDigitChar(s[i])

\* int(s) raises ValueError on a digit string that holds a digit which is
\* not decimal, and is the base-10 value otherwise.
IntRaises(s) == \E i \in 1..Len(s) : ~IsDecimalChar(s[i])

RECURSIVE int(_)
int(s) ==
    IF Len(s) = 0 THEN 0
    ELSE 10 * int(SubSeq(s, 1, Len(s) - 1)) + DigitValue(s[Len(s)])

HexDigits == << "0", "1", "2", "3", "4", "5", "6", "7",
                "8", "9", "A", "B", "C", "D", "E", "F" >>

\* format(n, "X") and str(n) of a natural number, as character sequences.
RECURSIVE ToHex(_)
ToHex(n) ==
    IF n < 16 THEN << HexDigits[n + 1] >>
    ELSE ToHex(n \div 16) \o << HexDigits[(n % 16) + 1] >>

RECURSIVE ToDec(_)
ToDec(n) ==
    IF n < 10 THEN << HexDigits[n + 1] >>
    ELSE ToDec(n \div 10) \o << HexDigits[(n % 10) + 1] >>

\* f"{n:02X}": at least two hexadecimal digits, zero-padded.
Fmt02X(n) == IF Len(ToHex(n)) < 2 THEN << "0" >> \o ToHex(n) ELSE ToHex(n)

\* f"({s1}, {s2})" and f"{s1:02X} {s2:02X}".
FmtBytes(s1, s2) ==
    << "(" >> \o ToDec(s1) \o << ",", " " >> \o ToDec(s2) \o << ")" >>

FmtHex(s1, s2) == Fmt02X(s1) \o << " " >> \o Fmt02X(s2)

FormatMessage == "Input must be exactly 5 digits"

\* The format check: return the format failure, or go on to parse.
Conv_Validate ==
    /\ pc = "convert_jis_code"
    /\ IF ~isdigit(jis_input) \/ Len(jis_input) # 5
       THEN /\ result' = [success |-> FALSE,
                          value |-> [prefix |-> FormatMessage, detail |-> ""],
                          debug_info |-> None]
            /\ pc' = "done"
       ELSE /\ result' = result
            /\ pc' = "parse"
    /\ UNCHANGED << entry, jis_input, args, debug_info, sjis, sjis_bytes,
                    attempts, unicode_char, exc >>

\* m, k, t = int(...) of the three slices, then debug_info is built.  An
\* int() that raises leaves debug_info None.
Conv_Parse ==
    /\ pc = "parse"
    /\ IF IntRaises(jis_input)
       THEN /\ exc' = Raise("ValueError", "invalid literal for int()")
            /\ pc' = "except"
            /\ UNCHANGED << args, debug_info >>
       ELSE LET m == int(SubSeq(jis_input, 1, 1))
                k == int(SubSeq(jis_input, 2, 3))
                t == int(SubSeq(jis_input, 4, 5))
            IN  /\ args' = << m, k, t >>
                /\ debug_info' = [area |-> m, ku |-> k, ten |-> t,
                                  sjis_bytes |-> Unbound, sjis_hex |-> << >>]
                /\ exc' = exc
                /\ pc' = "jis_to_sjis"
    /\ UNCHANGED << entry, jis_input, sjis, sjis_bytes, attempts,
                    unicode_char, result >>

\* The pair jis_to_sjis returned is written into debug_info.
Conv_RecordBytes ==
    /\ pc = "record_bytes"
    /\ debug_info' = [debug_info EXCEPT
                         !.sjis_bytes = FmtBytes(sjis[1], sjis[2]),
                         !.sjis_hex = FmtHex(sjis[1], sjis[2])]
    /\ pc' = "sjis_to_unicode"
    /\ UNCHANGED << entry, jis_input, args, sjis, sjis_bytes, attempts,
                    unicode_char, exc, result >>

\* return True, unicode_char, debug_info
Conv_Return ==
    /\ pc = "return"
    /\ result' = [success |-> TRUE, value |-> unicode_char,
                  debug_info |-> debug_info]
    /\ pc' = "done"
    /\ UNCHANGED << entry, jis_input, args, debug_info, sjis, sjis_bytes,
                    attempts, unicode_char, exc >>

\* ErrorPrefix without the ValueError clause: a ValueError falls through
\* to the Exception clause.
ErrorPrefix_NoValueErrorClause(e) ==
    IF e.type = "UnicodeDecodeError" THEN "Character encoding error"
    ELSE "Unexpected error"

\* The except clauses, tried in order: UnicodeDecodeError, ValueError,
\* Exception.
ErrorPrefix(e) ==
    IF e.type = "UnicodeDecodeError" THEN "Character encoding error"
    ELSE IF e.type = "ValueError" THEN "Conversion error"
    ELSE "Unexpected error"

Conv_Except ==
    /\ pc = "except"
    /\ result' = [success |-> FALSE,
                  value |-> [prefix |-> ErrorPrefix(exc), detail |-> exc.msg],
                  debug_info |-> debug_info]
    /\ exc' = NoExc
    /\ pc' = "done"
    /\ UNCHANGED << entry, jis_input, args, debug_info, sjis, sjis_bytes,
                    attempts, unicode_char >>

\* The str values of n characters over InputChars.
Strings(n) == [1..n -> InputChars]

Init ==
    /\ entry = "convert_jis_code"
    /\ pc = "convert_jis_code"
    /\ \E n \in 0..MaxLen : jis_input \in Strings(n)
    /\ args = Unbound
    /\ debug_info = None
    /\ sjis = Unbound
    /\ sjis_bytes = Unbound
    /\ attempts = << >>
    /\ unicode_char = None
    /\ exc = NoExc
    /\ result = None

Next ==
    \/ Conv_Validate
    \/ Conv_Parse
    \/ Enc_Call
    \/ Conv_RecordBytes
    \/ Dec_MakeBytes
    \/ Dec_TryShiftJis
    \/ Dec_TryCp932
    \/ Dec_TrySjis2004
    \/ Conv_Return
    \/ Conv_Except

Spec == Init /\ [][Next]_vars

---------------------------------------------------------------------------
(* Properties of jis_to_sjis, checked under SpecEnc. *)

ValidArgs(a) == a[1] \in 1..2 /\ a[2] \in 1..94 /\ a[3] \in 1..94

\* jis_to_sjis, called from outside, has finished.
EncDone == entry = "jis_to_sjis" /\ pc = "done"

\* The pairs jis_to_sjis returns for the valid coordinates, tabulated.
EncTable ==
    [a \in 1..2 |-> [k \in 1..94 |-> [t \in 1..94 |-> jis_to_sjis(a, k, t).ret]]]

\* C1: for every valid coordinate jis_to_sjis raises nothing and returns
\* two values that are bytes, 0 <= s1 <= 0xFF and 0 <= s2 <= 0xFF.
C1_BytesInRange ==
    (EncDone /\ ValidArgs(args)) =>
        /\ exc = NoExc
        /\ sjis # Unbound
        /\ sjis[1] \in 0..255
        /\ sjis[2] \in 0..255

\* C2: within one area, two distinct valid (ku, ten) never give the same
\* pair.  Every unordered pair of coordinates is compared once, from its
\* first member in row-major order.
C2_Injective ==
    (EncDone /\ ValidArgs(args)) =>
        \A k2 \in args[2]..94, t2 \in 1..94 :
            (k2 > args[2] \/ t2 > args[3]) => EncTable[args[1]][k2][t2] # sjis

\* C2 witness: a coordinate of an even row has been encoded, and the same
\* column of the row before it has the same first byte.
C2_Witness ==
    /\ EncDone
    /\ ValidArgs(args)
    /\ args[1] = 1
    /\ args[2] % 2 = 0
    /\ EncTable[1][args[2] - 1][args[3]][1] = sjis[1]

\* C3: area 1 is the JIS X 0208 -> Shift JIS reference mapping:
\* s1 = 0x81 + (ku-1) div 2 for ku <= 62 and 0xC1 + (ku-1) div 2 for
\* ku >= 63; s2 = ten + 0x3F for odd ku and ten <= 63, ten + 0x40 for odd
\* ku and ten >= 64, ten + 0x9E for even ku.  (1, 1, 1) gives (0x81, 0x40),
\* and rows 2j-1 and 2j share their first byte.
C3_Area1Reference ==
    (EncDone /\ ValidArgs(args) /\ args[1] = 1) =>
        LET ku  == args[2]
            ten == args[3]
        IN  /\ exc = NoExc
            /\ sjis[1] = IF ku <= 62 THEN 129 + ((ku - 1) \div 2)
                                     ELSE 193 + ((ku - 1) \div 2)
            /\ sjis[2] = IF ku % 2 = 1
                         THEN IF ten <= 63 THEN ten + 63 ELSE ten + 64
                         ELSE ten + 158
            /\ (ku = 1 /\ ten = 1) => sjis = << 129, 64 >>
            /\ (ku % 2 = 0) => sjis[1] = EncTable[1][ku - 1][ten][1]

\* C3 witness: (1, 64, 94), an even row past the 0xA0-0xDF gap, is 0xE0FC.
C3_Witness ==
    /\ EncDone
    /\ args = << 1, 64, 94 >>
    /\ sjis = << 224, 252 >>

\* C8: outside area 1..2, ku 1..94, ten 1..94, jis_to_sjis raises
\* ValueError and returns no pair.
C8_RangeError ==
    (EncDone /\ ~ValidArgs(args)) =>
        /\ exc.type = "ValueError"
        /\ sjis = Unbound

\* C8 witness: a call whose only fault is ten = 95 has raised.
C8_Witness ==
    /\ EncDone
    /\ args = << 2, 94, 95 >>
    /\ exc = Raise("ValueError", "Invalid ten number")

\* C9: for every valid coordinate the second byte is a legal Shift JIS
\* trailing byte, in 0x40..0x7E or 0x80..0xFC, never 0x7F.
C9_LegalTrailByte ==
    (EncDone /\ ValidArgs(args)) =>
        /\ sjis # Unbound
        /\ sjis[2] \in (64..126) \cup (128..252)

\* C9 witness: area 2 at remainder 63, the first index past the skipped
\* 0x7F, gives 0x80.
C9_Witness ==
    /\ EncDone
    /\ args = << 2, 1, 64 >>
    /\ sjis = << 135, 128 >>

\* C10: area 2 maps into 0x8740..0x9FFC when the linear index is below
\* 1410 (s1 in 0x87..0x9F) and into 0xE040..0xFCFC otherwise (s1 in
\* 0xE0..0xFC).
C10_ExtensionArea ==
    (EncDone /\ ValidArgs(args) /\ args[1] = 2) =>
        LET linear_index == (args[2] - 1) * 94 + (args[3] - 1)
        IN  /\ sjis # Unbound
            /\ sjis[2] \in 64..252
            /\ IF linear_index < 1410
               THEN sjis[1] \in 135..159
               ELSE sjis[1] \in 224..252

---------------------------------------------------------------------------
(* Properties of sjis_to_unicode, checked under SpecDec. *)

DecodeOrder == << "shift_jis", "cp932", "shift_jis-2004" >>

\* sjis_to_unicode, called from outside, has finished.
DecDone == entry = "sjis_to_unicode" /\ pc = "done"

\* C4: the decodes are attempted in the order shift_jis, cp932,
\* shift_jis-2004; every attempt but the last one made has failed (a later
\* codec is tried only after all earlier ones failed, and nothing is tried
\* after a success); the str returned is that of the first success; and
\* UnicodeDecodeError is raised only when all three have failed.
C4_FallbackOrder ==
    LET n == Len(attempts)
    IN  /\ n <= 3
        /\ \A i \in 1..n : attempts[i].codec = DecodeOrder[i]
        /\ \A i \in 1..(n - 1) : attempts[i].outcome # "ok"
        /\ (unicode_char # None) <=> (n > 0 /\ attempts[n].outcome = "ok")
        /\ (unicode_char # None) =>
               /\ unicode_char = Decoded(attempts[n].codec, sjis_bytes)
               /\ exc = NoExc
        /\ (exc.type = "UnicodeDecodeError") =>
               /\ n = 3
               /\ \A i \in 1..3 : attempts[i].outcome # "ok"
        /\ (DecDone /\ sjis_bytes # Unbound) =>
               (unicode_char # None \/ exc.type = "UnicodeDecodeError")

\* C4 witness: shift_jis failed, cp932 decoded, the function returned the
\* cp932 str and shift_jis-2004 was never tried.
C4_Witness ==
    /\ DecDone
    /\ Len(attempts) = 2
    /\ attempts[1] = [codec |-> "shift_jis", outcome |-> "UnicodeDecodeError"]
    /\ attempts[2] = [codec |-> "cp932", outcome |-> "ok"]
    /\ unicode_char = Decoded("cp932", sjis_bytes)

---------------------------------------------------------------------------
(* Properties of convert_jis_code, checked under Spec. *)

\* convert_jis_code has returned.
ConvDone == entry = "convert_jis_code" /\ pc = "done"

IsFiveAsciiDigits(s) == Len(s) = 5 /\ \A i \in 1..5 : s[i] \in AsciiDigits

\* The coordinate five ASCII digits denote: digit 1, digits 2-3, digits 4-5.
ParsedCoordinate(s) ==
    << DigitValue(s[1]),
       10 * DigitValue(s[2]) + DigitValue(s[3]),
       10 * DigitValue(s[4]) + DigitValue(s[5]) >>

FormatFailure ==
    [success |-> FALSE,
     value |-> [prefix |-> FormatMessage, detail |-> ""],
     debug_info |-> None]

RangeMessages ==
    {"Invalid area number", "Invalid ku number", "Invalid ten number"}

\* C5: convert_jis_code returns the format failure, with nothing parsed or
\* computed, for every input that is not exactly 5 ASCII decimal digits, and
\* for no input that is.
C5_FormatFailure ==
    ConvDone =>
        /\ (result = FormatFailure) <=> ~IsFiveAsciiDigits(jis_input)
        /\ ~IsFiveAsciiDigits(jis_input) => (args = Unbound /\ sjis = Unbound)

\* C6: for 5 ASCII digits whose coordinate is out of range, the result is a
\* failure with the range-error message, the parsed coordinate attached and
\* no byte pair computed.
C6_RangeFailure ==
    (ConvDone /\ IsFiveAsciiDigits(jis_input)
              /\ ~ValidArgs(ParsedCoordinate(jis_input))) =>
        LET c == ParsedCoordinate(jis_input)
        IN  /\ result.success = FALSE
            /\ result.value.prefix = "Conversion error"
            /\ result.value.detail \in RangeMessages
            /\ result.debug_info = [area |-> c[1], ku |-> c[2], ten |-> c[3],
                                    sjis_bytes |-> Unbound, sjis_hex |-> << >>]
            /\ sjis = Unbound
            /\ sjis_bytes = Unbound
            /\ attempts = << >>

\* C6 witness: "30101" has returned the failure for area 3 with the
\* coordinate (3, 1, 1) attached.
C6_Witness ==
    /\ ConvDone
    /\ jis_input = << "3", "0", "1", "0", "1" >>
    /\ result.success = FALSE
    /\ result.value = [prefix |-> "Conversion error",
                       detail |-> "Invalid area number"]
    /\ result.debug_info.area = 3
    /\ result.debug_info.ku = 1
    /\ result.debug_info.ten = 1

\* C7: for 5 ASCII digits whose coordinate is in range, the result is a
\* success or the decode-error failure, never another failure, and in both
\* the coordinate and the byte pair of jis_to_sjis, in decimal and in hex,
\* are attached.
C7_SuccessOrDecodeError ==
    (ConvDone /\ IsFiveAsciiDigits(jis_input)
              /\ ValidArgs(ParsedCoordinate(jis_input))) =>
        LET c == ParsedCoordinate(jis_input)
            b == EncTable[c[1]][c[2]][c[3]]
        IN  /\ \/ result.success
               \/ result.value.prefix = "Character encoding error"
            /\ result.debug_info = [area |-> c[1], ku |-> c[2], ten |-> c[3],
                                    sjis_bytes |-> FmtBytes(b[1], b[2]),
                                    sjis_hex |-> FmtHex(b[1], b[2])]

====
